---- MODULE Spec2Model ----
(***************************************************************************)
(* A model of the KalmanFilter class of KalmanFilterExample.py: its        *)
(* constructor, predict and update, with numpy's array semantics (np.dot,  *)
(* broadcasting +/-, .T, np.eye, np.zeros, np.linalg.inv) written out.     *)
(* Real numbers are exact rationals <<numerator, denominator>>; arrays are *)
(* records [shape, data] with the data in row-major order and 0, 1 or 2    *)
(* axes.  A raised Python exception is the record [err |-> its type].      *)
(***************************************************************************)
EXTENDS Integers, Sequences, FiniteSets, TLC

\* Number of predict/update calls explored on an instance after construction.
MaxCalls == 3
\* Number of calls explored on each of the two heap-held instances.
MaxCallsH == 2
\* Number of in-place writes the caller makes to the arrays it holds.
MaxMut == 1

(***************************************************************************)
(* Rational arithmetic                                                     *)
(***************************************************************************)
Abs(i) == IF i < 0 THEN -i ELSE i

RECURSIVE GCD(_, _)
GCD(a, b) == IF b = 0 THEN a ELSE GCD(b, a % b)

RNorm(n, d) ==
    LET g == GCD(Abs(n), Abs(d))
        s == IF d < 0 THEN -1 ELSE 1
    IN  <<(s * n) \div g, (s * d) \div g>>

Rat(i) == <<i, 1>>
RAdd(a, b) == RNorm(a[1] * b[2] + b[1] * a[2], a[2] * b[2])
RSub(a, b) == RNorm(a[1] * b[2] - b[1] * a[2], a[2] * b[2])
RMul(a, b) == RNorm(a[1] * b[1], a[2] * b[2])
RDiv(a, b) == RNorm(a[1] * b[2], a[2] * b[1])
RNeg(a) == <<-a[1], a[2]>>

RECURSIVE RSum(_)
RSum(s) == IF s = <<>> THEN Rat(0) ELSE RAdd(Head(s), RSum(Tail(s)))

(***************************************************************************)
(* numpy arrays                                                            *)
(***************************************************************************)
None == [none |-> TRUE]
IsNone(a) == "none" \in DOMAIN a
Raise(e) == [err |-> e]
IsErr(a) == "err" \in DOMAIN a
IsArray(a) == "shape" \in DOMAIN a

Max(a, b) == IF a >= b THEN a ELSE b

\* A Python or numpy scalar (a 0-d array).
Scalar(r) == [shape |-> <<>>, data |-> <<r>>]
\* A 1-d array from a sequence of integers.
Vec(s) == [shape |-> <<Len(s)>>, data |-> [i \in 1..Len(s) |-> Rat(s[i])]]
\* A 2-d array from a sequence of equally long rows of integers.
Mat(rows) ==
    LET r == Len(rows)
        c == Len(rows[1])
    IN  [shape |-> <<r, c>>,
         data  |-> [k \in 1..(r * c) |-> Rat(rows[((k - 1) \div c) + 1][((k - 1) % c) + 1])]]

Ndim(a) == Len(a.shape)
\* The shape padded on the left with 1s to two axes, as broadcasting aligns it.
Shape2(a) ==
    CASE Ndim(a) = 0 -> <<1, 1>>
      [] Ndim(a) = 1 -> <<1, a.shape[1]>>
      [] OTHER       -> a.shape
\* The element at row i, column j of the padded view.
At(a, i, j) == a.data[(i - 1) * Shape2(a)[2] + j]
\* The array of the given shape whose padded view has f[i, j] at (i, j).
Build(shape, rows, cols, f) ==
    [shape |-> shape,
     data  |-> [k \in 1..(rows * cols) |-> f[((k - 1) \div cols) + 1, ((k - 1) % cols) + 1]]]

\* a.T: reverses the axes (a no-op below two axes).
T(a) ==
    IF Ndim(a) < 2 THEN a
    ELSE Build(<<a.shape[2], a.shape[1]>>, a.shape[2], a.shape[1],
               [i \in 1..a.shape[2], j \in 1..a.shape[1] |-> At(a, j, i)])

\* np.eye(n)
Eye(n) == Build(<<n, n>>, n, n, [i \in 1..n, j \in 1..n |-> IF i = j THEN Rat(1) ELSE Rat(0)])
\* np.zeros((r, c))
Zeros(r, c) == Build(<<r, c>>, r, c, [i \in 1..r, j \in 1..c |-> Rat(0)])

\* One element of a + b, a - b or a * b.
Elementwise(op, x, y) ==
    CASE op = "add" -> RAdd(x, y)
      [] op = "sub" -> RSub(x, y)
      [] op = "mul" -> RMul(x, y)

\* Elementwise a (op) b under numpy's broadcasting rules.
Broadcast(a, b, op) ==
    IF IsErr(a) THEN a
    ELSE IF IsErr(b) THEN b
    ELSE
    LET sa == Shape2(a)
        sb == Shape2(b)
        ok == /\ (sa[1] = sb[1] \/ sa[1] = 1 \/ sb[1] = 1)
              /\ (sa[2] = sb[2] \/ sa[2] = 1 \/ sb[2] = 1)
        r  == IF sa[1] = 1 THEN sb[1] ELSE sa[1]
        c  == IF sa[2] = 1 THEN sb[2] ELSE sa[2]
        nd == Max(Ndim(a), Ndim(b))
        sh == CASE nd = 0 -> <<>> [] nd = 1 -> <<c>> [] OTHER -> <<r, c>>
    IN  IF ~ok THEN Raise("ValueError")
        ELSE Build(sh, r, c,
                   [i \in 1..r, j \in 1..c |->
                      Elementwise(op,
                                  At(a, IF sa[1] = 1 THEN 1 ELSE i, IF sa[2] = 1 THEN 1 ELSE j),
                                  At(b, IF sb[1] = 1 THEN 1 ELSE i, IF sb[2] = 1 THEN 1 ELSE j))])

Add(a, b) == Broadcast(a, b, "add")
Sub(a, b) == Broadcast(a, b, "sub")

\* np.dot(a, b)
Dot(a, b) ==
    IF IsErr(a) THEN a
    ELSE IF IsErr(b) THEN b
    ELSE IF Ndim(a) = 0 \/ Ndim(b) = 0 THEN Broadcast(a, b, "mul")
    ELSE IF Ndim(a) = 1 /\ Ndim(b) = 1 THEN
        IF a.shape[1] # b.shape[1] THEN Raise("ValueError")
        ELSE Scalar(RSum([k \in 1..a.shape[1] |-> RMul(a.data[k], b.data[k])]))
    ELSE IF Ndim(a) = 2 /\ Ndim(b) = 1 THEN
        IF a.shape[2] # b.shape[1] THEN Raise("ValueError")
        ELSE Build(<<a.shape[1]>>, 1, a.shape[1],
                   [i \in {1}, j \in 1..a.shape[1] |->
                      RSum([k \in 1..a.shape[2] |-> RMul(At(a, j, k), b.data[k])])])
    ELSE IF Ndim(a) = 1 /\ Ndim(b) = 2 THEN
        IF a.shape[1] # b.shape[1] THEN Raise("ValueError")
        ELSE Build(<<b.shape[2]>>, 1, b.shape[2],
                   [i \in {1}, j \in 1..b.shape[2] |->
                      RSum([k \in 1..a.shape[1] |-> RMul(a.data[k], At(b, k, j))])])
    ELSE
        IF a.shape[2] # b.shape[1] THEN Raise("ValueError")
        ELSE Build(<<a.shape[1], b.shape[2]>>, a.shape[1], b.shape[2],
                   [i \in 1..a.shape[1], j \in 1..b.shape[2] |->
                      RSum([k \in 1..a.shape[2] |-> RMul(At(a, i, k), At(b, k, j))])])

\* The square matrix a without row i and column j.
Minor(a, i, j) ==
    LET n == a.shape[1]
    IN  Build(<<n - 1, n - 1>>, n - 1, n - 1,
              [r \in 1..(n - 1), c \in 1..(n - 1) |->
                 At(a, IF r < i THEN r ELSE r + 1, IF c < j THEN c ELSE c + 1)])

RECURSIVE Det(_)
Det(a) ==
    IF a.shape[1] = 0 THEN Rat(1)
    ELSE RSum([j \in 1..a.shape[1] |->
                 LET t == RMul(At(a, 1, j), Det(Minor(a, 1, j)))
                 IN  IF j % 2 = 1 THEN t ELSE RNeg(t)])

\* np.linalg.inv(a)
Inv(a) ==
    IF IsErr(a) THEN a
    ELSE IF Ndim(a) < 2 THEN Raise("LinAlgError")
    ELSE IF a.shape[1] # a.shape[2] THEN Raise("LinAlgError")
    ELSE IF Det(a) = Rat(0) THEN Raise("LinAlgError")
    ELSE LET n == a.shape[1]
             d == Det(a)
         IN  Build(<<n, n>>, n, n,
                   [i \in 1..n, j \in 1..n |->
                      LET c == RDiv(Det(Minor(a, j, i)), d)
                      IN  IF (i + j) % 2 = 0 THEN c ELSE RNeg(c)])

(***************************************************************************)
(* class KalmanFilter                                                      *)
(***************************************************************************)
IsFilter(k) == "F" \in DOMAIN k

\* __init__(self, F, B, H, Q, R, x0, P): the new instance, or the exception.
KalmanFilterInit(F, B, H, Q, R, x0, P) ==
    IF IsNone(F) \/ IsNone(H) THEN Raise("ValueError")
    ELSE IF Ndim(F) < 2 \/ Ndim(H) < 2 THEN Raise("IndexError")
    ELSE LET n == F.shape[2]
             m == H.shape[2]
         IN  [n |-> n, m |-> m, F |-> F, H |-> H,
              B |-> IF IsNone(B) THEN Scalar(Rat(0)) ELSE B,
              Q |-> IF IsNone(Q) THEN Eye(n) ELSE Q,
              R |-> IF IsNone(R) THEN Eye(n) ELSE R,
              P |-> IF IsNone(P) THEN Eye(n) ELSE P,
              x |-> IF IsNone(x0) THEN Zeros(n, 1) ELSE x0]

\* predict, line 35: np.dot(self.F, self.x) + np.dot(self.B, u)
PredictedState(F, x, B, u) == Add(Dot(F, x), Dot(B, u))

\* The covariance propagation without the right factor F^T.
PredictedCovNoTranspose(F, P, Q) == Add(Dot(F, P), Q)
\* predict, line 37: np.dot(np.dot(self.F, self.P), self.F.T) + self.Q
PredictedCov(F, P, Q) == Add(Dot(Dot(F, P), T(F)), Q)

\* update, line 42: z - np.dot(self.H, self.x)
Innovation(z, H, x) == Sub(z, Dot(H, x))

\* update, line 44: self.R + np.dot(self.H, np.dot(self.P, self.H.T))
InnovationCov(R, H, P) == Add(R, Dot(H, Dot(P, T(H))))

\* An inverse that answers zeros for a singular matrix instead of raising.
InvOrZeros(S) ==
    IF IsErr(Inv(S)) /\ IsArray(S) /\ Ndim(S) = 2 THEN Zeros(S.shape[1], S.shape[1]) ELSE Inv(S)
\* update, line 46: np.linalg.inv(S)
InvS(S) == Inv(S)

\* update, line 46: np.dot(np.dot(self.P, self.H.T), np.linalg.inv(S))
KalmanGain(P, H, S) == Dot(Dot(P, T(H)), InvS(S))

\* update, line 48: self.x + np.dot(K, y)
UpdatedState(x, K, y) == Add(x, Dot(K, y))

\* The covariance update without the K*R*K^T term.
UpdatedCovNoNoiseTerm(n, K, H, P, R) ==
    LET IKH == Sub(Eye(n), Dot(K, H))
    IN  Dot(Dot(IKH, P), T(IKH))
\* update, lines 50-53: the Joseph form, with I = np.eye(self.n)
UpdatedCov(n, K, H, P, R) ==
    LET IKH == Sub(Eye(n), Dot(K, H))
    IN  Add(Dot(Dot(IKH, P), T(IKH)), Dot(Dot(K, R), T(K)))

\* The outcome of a call: the instance after it, the exception raised ("none"
\* when it returned), the returned value, and which of self.x, self.P it assigned.
Outcome(k, e, r, sx, sP) == [kf |-> k, err |-> e, ret |-> r, setx |-> sx, setP |-> sP]

\* predict(self, u = 0)
predict(k, u) ==
    LET x1 == PredictedState(k.F, k.x, k.B, u)
    IN  IF IsErr(x1) THEN Outcome(k, x1.err, None, FALSE, FALSE)
        ELSE LET k1 == [k EXCEPT !.x = x1]
                 P1 == PredictedCov(k1.F, k1.P, k1.Q)
             IN  IF IsErr(P1) THEN Outcome(k1, P1.err, None, TRUE, FALSE)
                 ELSE Outcome([k1 EXCEPT !.P = P1], "none", x1, TRUE, TRUE)

\* update(self, z)
update(k, z) ==
    LET y == Innovation(z, k.H, k.x)
        S == InnovationCov(k.R, k.H, k.P)
        K == KalmanGain(k.P, k.H, S)
        x1 == UpdatedState(k.x, K, y)
    IN  IF IsErr(y) THEN Outcome(k, y.err, None, FALSE, FALSE)
        ELSE IF IsErr(S) THEN Outcome(k, S.err, None, FALSE, FALSE)
        ELSE IF IsErr(K) THEN Outcome(k, K.err, None, FALSE, FALSE)
        ELSE IF IsErr(x1) THEN Outcome(k, x1.err, None, FALSE, FALSE)
        ELSE LET k1 == [k EXCEPT !.x = x1]
                 P1 == UpdatedCov(k1.n, K, k1.H, k1.P, k1.R)
             IN  IF IsErr(P1) THEN Outcome(k1, P1.err, None, TRUE, FALSE)
                 ELSE Outcome([k1 EXCEPT !.P = P1], "none", None, TRUE, TRUE)

(***************************************************************************)
(* The arguments a caller passes                                           *)
(***************************************************************************)
F2  == Mat(<<<<1, 1>>, <<0, 1>>>>)
H12 == Mat(<<<<1, 0>>>>)
H13 == Mat(<<<<1, 0, 0>>>>)
H22 == Mat(<<<<1, 0>>, <<0, 1>>>>)
H1d == Vec(<<1, 0>>)
B22 == Mat(<<<<1, 0>>, <<0, 1>>>>)
QA  == Mat(<<<<1, 1>>, <<0, 1>>>>)
R1  == Mat(<<<<1>>>>)
R0  == Mat(<<<<0>>>>)
X0  == Mat(<<<<1>>, <<2>>>>)
PZ  == Mat(<<<<0, 0>>, <<0, 0>>>>)
P1x1 == Mat(<<<<2>>>>)
U21 == Mat(<<<<1>>, <<1>>>>)
U31 == Mat(<<<<1>>, <<1>>, <<1>>>>)
U2  == Vec(<<1, 2>>)
Z0  == Scalar(Rat(1))
Z21 == Mat(<<<<1>>, <<2>>>>)
Z2  == Vec(<<1, 2>>)

ArgF  == {None, F2}
ArgH  == {None, H12, H13, H22, H1d}
ArgB  == {None, B22}
ArgQ  == {None, QA}
ArgR  == {None, R1, R0}
ArgX0 == {None, X0}
ArgP  == {None, PZ, P1x1}
ArgU  == {None, U21, U31, U2}
ArgZ  == {Z0, Z21, Z2}

(***************************************************************************)
(* State: one filter instance driven by value (kf, ctor, last, calls), and *)
(* a heap of array objects holding the x and P of two instances and the    *)
(* arrays their caller keeps (heap, inst, cx0, cP, cret, nmut).            *)
(***************************************************************************)
VARIABLES kf, ctor, last, calls, heap, inst, cx0, cP, cret, nmut
fvars == <<kf, ctor, last, calls>>
hvars == <<heap, inst, cx0, cP, cret, nmut>>
vars == <<kf, ctor, last, calls, heap, inst, cx0, cP, cret, nmut>>

NoCall == [op |-> "none", arg |-> None, err |-> "none", pre |-> None, ret |-> None]

InitFilter ==
    /\ kf = None
    /\ ctor = None
    /\ last = NoCall
    /\ calls = 0

\* kf = KalmanFilter(F=F, B=B, H=H, Q=Q, R=R, x0=x0, P=P)
Construct(F, B, H, Q, R, x0, P) ==
    /\ last.op = "none"
    /\ \E k \in {KalmanFilterInit(F, B, H, Q, R, x0, P)} :
           /\ kf' = IF IsErr(k) THEN None ELSE k
           /\ last' = [op |-> "init", arg |-> None, err |-> IF IsErr(k) THEN k.err ELSE "none",
                       pre |-> None, ret |-> None]
    /\ ctor' = [F |-> F, B |-> B, H |-> H, Q |-> Q, R |-> R, x0 |-> x0, P |-> P]
    /\ UNCHANGED calls
    /\ UNCHANGED hvars

\* kf.predict() when u is None, kf.predict(u) otherwise
Predict(u) ==
    /\ IsFilter(kf)
    /\ calls < MaxCalls
    /\ \E o \in {predict(kf, IF IsNone(u) THEN Scalar(Rat(0)) ELSE u)} :
           /\ kf' = o.kf
           /\ last' = [op |-> "predict", arg |-> u, err |-> o.err, pre |-> kf, ret |-> o.ret]
    /\ calls' = calls + 1
    /\ UNCHANGED ctor
    /\ UNCHANGED hvars

\* kf.update(z)
Update(z) ==
    /\ IsFilter(kf)
    /\ calls < MaxCalls
    /\ \E o \in {update(kf, z)} :
           /\ kf' = o.kf
           /\ last' = [op |-> "update", arg |-> z, err |-> o.err, pre |-> kf, ret |-> o.ret]
    /\ calls' = calls + 1
    /\ UNCHANGED ctor
    /\ UNCHANGED hvars

(***************************************************************************)
(* Array objects: a reference is an index into heap, 0 is no object.       *)
(***************************************************************************)
\* A new object holding v: [heap, ref].
Alloc(h, v) == [heap |-> Append(h, v), ref |-> Len(h) + 1]

\* "default if arg is None else arg" (lines 29 and 31): the attribute is bound to
\* the caller's own object when one is passed.
Bind(h, ref, default) ==
    IF ref = 0 THEN Alloc(h, default) ELSE [heap |-> h, ref |-> ref]

\* old[...] = v: the object the attribute names is overwritten.
AssignInPlace(h, old, v) == [heap |-> [h EXCEPT ![old] = v], ref |-> old]
\* self.x = <expression>, self.P = <expression> (lines 35, 37, 48, 52): the
\* expression's result is a new array and the attribute is rebound to it.
Rebind(h, old, v) == Alloc(h, v)

\* The instance with its x and P read from the heap.
Value(h, k) == [k EXCEPT !.x = h[k.x], !.P = h[k.P]]

\* The names that may refer to an object, in a fixed order: the caller's x0, P
\* and returned value, then each instance's x and P.
Names(i2, a, b, c) ==
    <<a, b, c>> \o
    (IF IsNone(i2[1]) THEN <<0, 0>> ELSE <<i2[1].k.x, i2[1].k.P>>) \o
    (IF IsNone(i2[2]) THEN <<0, 0>> ELSE <<i2[2].k.x, i2[2].k.P>>)

\* Reference counting: an object no name refers to is released.  The objects
\* left are numbered in the order of the names that refer to them (an object's
\* number is not observable, only which names share it).
Renumber(h, i2, c, rs, live) ==
    LET first == [r \in live |-> CHOOSE j \in 1..Len(rs) : rs[j] = r /\ \A q \in 1..(j - 1) : rs[q] # r]
        new   == [r \in live \cup {0} |->
                    IF r = 0 THEN 0 ELSE Cardinality({q \in live : first[q] <= first[r]})]
        old   == [j \in 1..Cardinality(live) |-> CHOOSE r \in live : new[r] = j]
        ren(e) == IF IsNone(e) THEN e ELSE [e EXCEPT !.k.x = new[@], !.k.P = new[@]]
    IN  [heap |-> [j \in 1..Cardinality(live) |-> h[old[j]]],
         inst |-> [i \in DOMAIN i2 |-> ren(i2[i])],
         cret |-> new[c]]

Collect(h, i2, a, b, c) ==
    LET rs == Names(i2, a, b, c)
    IN  Renumber(h, i2, c, rs, {rs[j] : j \in 1..Len(rs)} \ {0})

\* The fixed model of the two instances: F, H, R as in the example, Q, B omitted.
XC == Mat(<<<<1>>, <<2>>>>)
PC == Mat(<<<<2, 0>>, <<0, 2>>>>)
Insts == {1, 2}
ArgZH == {Scalar(Rat(1)), Scalar(Rat(3))}

InitHeap ==
    /\ heap = <<XC, PC>>
    /\ cx0 = 1
    /\ cP = 2
    /\ cret = 0
    /\ inst = [i \in Insts |-> None]
    /\ nmut = 0

\* The heap and the instance record k after a call with outcome o on it.
Commit(h, k, o) ==
    LET ax == IF o.setx THEN Rebind(h, k.x, o.kf.x) ELSE [heap |-> h, ref |-> k.x]
        aP == IF o.setP THEN Rebind(ax.heap, k.P, o.kf.P) ELSE [heap |-> ax.heap, ref |-> k.P]
    IN  [heap |-> aP.heap, k |-> [k EXCEPT !.x = ax.ref, !.P = aP.ref], err |-> o.err]

\* k.predict() and k.update(z) on the heap h.
PredictOn(h, k) == CHOOSE c \in {Commit(h, k, o) : o \in {predict(Value(h, k), Scalar(Rat(0)))}} : TRUE
UpdateOn(h, k, z) == CHOOSE c \in {Commit(h, k, o) : o \in {update(Value(h, k), z)}} : TRUE

\* inst[i] = KalmanFilter(F=F2, H=H12, R=R1, x0=x0, P=P), x0 and P the caller's
\* arrays or omitted.
ConstructH(i, passX0, passP) ==
    /\ IsNone(inst[i])
    /\ LET rx == IF passX0 THEN cx0 ELSE 0
           rP == IF passP THEN cP ELSE 0
           kv == KalmanFilterInit(F2, None, H12, None, R1,
                                  IF passX0 THEN heap[cx0] ELSE None,
                                  IF passP THEN heap[cP] ELSE None)
           aP == Bind(heap, rP, kv.P)
           ax == Bind(aP.heap, rx, kv.x)
           i2 == [inst EXCEPT ![i] = [k |-> [kv EXCEPT !.x = ax.ref, !.P = aP.ref],
                                      args |-> <<IF passX0 THEN heap[cx0] ELSE None,
                                                 IF passP THEN heap[cP] ELSE None>>,
                                      hist |-> <<>>]]
       IN  \E g \in {Collect(ax.heap, i2, cx0, cP, cret)} :
           /\ inst' = g.inst
           /\ heap' = g.heap
           /\ cret' = g.cret
    /\ UNCHANGED <<cx0, cP, nmut>>
    /\ UNCHANGED fvars

\* cret = inst[i].predict()
PredictH(i) ==
    /\ ~IsNone(inst[i])
    /\ Len(inst[i].hist) < MaxCallsH
    /\ \E c \in {PredictOn(heap, inst[i].k)} :
       \E g \in {Collect(c.heap,
                          [inst EXCEPT ![i].k = c.k, ![i].hist = Append(@, <<"predict", None>>)],
                          cx0, cP, IF c.err = "none" THEN c.k.x ELSE cret)} :
           /\ inst' = g.inst
           /\ cret' = g.cret
           /\ heap' = g.heap
    /\ UNCHANGED <<cx0, cP, nmut>>
    /\ UNCHANGED fvars

\* inst[i].update(z)
UpdateH(i, z) ==
    /\ ~IsNone(inst[i])
    /\ Len(inst[i].hist) < MaxCallsH
    /\ \E c \in {UpdateOn(heap, inst[i].k, z)} :
       \E g \in {Collect(c.heap,
                          [inst EXCEPT ![i].k = c.k, ![i].hist = Append(@, <<"update", z>>)],
                          cx0, cP, cret)} :
           /\ inst' = g.inst
           /\ cret' = g.cret
           /\ heap' = g.heap
    /\ UNCHANGED <<cx0, cP, nmut>>
    /\ UNCHANGED fvars

\* The caller writes into one of the arrays it holds: a[0, 0] += 1.
CallerMutate(ref) ==
    /\ ref # 0
    /\ nmut < MaxMut
    /\ heap' = [heap EXCEPT ![ref].data[1] = RAdd(@, Rat(1))]
    /\ nmut' = nmut + 1
    /\ UNCHANGED <<inst, cx0, cP, cret>>
    /\ UNCHANGED fvars

\* sliderEvent (lines 102-111): kf.x = x0, then predict and update once per
\* measurement.
RECURSIVE SliderLoop(_, _, _)
SliderLoop(h, k, meas) ==
    IF meas = <<>> THEN [heap |-> h, k |-> k, err |-> "none"]
    ELSE CHOOSE r \in
           {IF a.err # "none" THEN a
            ELSE CHOOSE r2 \in
                   {IF b.err # "none" THEN b ELSE SliderLoop(b.heap, b.k, Tail(meas)) :
                      b \in {UpdateOn(a.heap, a.k, Head(meas))}} : TRUE :
              a \in {PredictOn(h, k)}} : TRUE

SliderEvent(i, meas) ==
    /\ ~IsNone(inst[i])
    /\ IsArray(inst[i].args[1])
    /\ Len(inst[i].hist) <= MaxCallsH
    /\ \E r \in {SliderLoop(heap, [inst[i].k EXCEPT !.x = cx0], meas)} :
       LET i2 == [inst EXCEPT ![i].k = r.k,
                              ![i].hist = @ \o <<<<"reset", None>>>>
                                            \o [j \in 1..(2 * Len(meas)) |->
                                                  IF j % 2 = 1 THEN <<"predict", None>>
                                                  ELSE <<"update", meas[j \div 2]>>]]
       IN  \E g \in {Collect(r.heap, i2, cx0, cP, cret)} :
           /\ inst' = g.inst
           /\ cret' = g.cret
           /\ heap' = g.heap
    /\ UNCHANGED <<cx0, cP, nmut>>
    /\ UNCHANGED fvars

(***************************************************************************)
(* Specifications                                                          *)
(***************************************************************************)
Init == InitFilter /\ InitHeap

\* One instance, every argument drawn from the sets above.
Next ==
    \/ \E F \in ArgF, B \in ArgB, H \in ArgH, Q \in ArgQ, R \in ArgR, x0 \in ArgX0, P \in ArgP :
          Construct(F, B, H, Q, R, x0, P)
    \/ \E u \in ArgU : Predict(u)
    \/ \E z \in ArgZ : Update(z)

Spec == Init /\ [][Next]_vars

\* Two instances driven by calls only.
NextTwin ==
    \/ \E i \in Insts, a \in BOOLEAN, b \in BOOLEAN : ConstructH(i, a, b)
    \/ \E i \in Insts : PredictH(i)
    \/ \E i \in Insts, z \in ArgZH : UpdateH(i, z)

SpecTwin == Init /\ [][NextTwin]_vars

\* The example's single instance and a caller that also writes into the arrays
\* it holds and resets the instance the way the example's slider does.
NextAlias ==
    \/ \E a \in BOOLEAN, b \in BOOLEAN : ConstructH(1, a, b)
    \/ PredictH(1)
    \/ \E z \in ArgZH : UpdateH(1, z)
    \/ \E r \in {cx0, cP, cret} : CallerMutate(r)
    \/ \E z \in ArgZH : SliderEvent(1, <<z>>)

SpecAlias == Init /\ [][NextAlias]_vars

(***************************************************************************)
(* Properties                                                              *)
(***************************************************************************)
IsCall == last.op \in {"predict", "update"}
Returned == last.err = "none"
\* Number of elements of an array.
Size(a) == Len(a.data)
\* a equals its own transpose.
Sym(a) == IsArray(a) /\ a = T(a)
\* The P the instance started from.
InitialP == IF IsNone(ctor.P) THEN Eye(kf.n) ELSE ctor.P
\* S = R + H*P*H^T of the instance k.
InnovationCovOf(k) == Add(k.R, Dot(Dot(k.H, k.P), T(k.H)))
NotInvertible(S) ==
    IsArray(S) /\ (Ndim(S) < 2 \/ S.shape[1] # S.shape[2] \/ Det(S) = Rat(0))

\* C1: an update that returns has set x to x + K*y and P to the Joseph form
\* (I - K*H)*P*(I - K*H)^T + K*R*K^T, with y = z - H*x, S = R + H*P*H^T and
\* K = P*H^T*S^-1 all computed from the x and P held before the call and the
\* stored R.
C1_UpdateEquations ==
    (last.op = "update" /\ Returned) =>
        LET p == last.pre
            y == Sub(last.arg, Dot(p.H, p.x))
            S == Add(p.R, Dot(Dot(p.H, p.P), T(p.H)))
            K == Dot(Dot(p.P, T(p.H)), Inv(S))
            A == Sub(Eye(p.n), Dot(K, p.H))
        IN  /\ kf.x = Add(p.x, Dot(K, y))
            /\ kf.P = Add(Dot(Dot(A, p.P), T(A)), Dot(Dot(K, kf.R), T(K)))
            /\ kf.R = p.R

\* An update on a well-formed m = 1 filter has returned and moved both x and P.
C1_Witness ==
    /\ last.op = "update" /\ Returned
    /\ kf.H = H12 /\ kf.R = R1
    /\ kf.x # last.pre.x /\ kf.P # last.pre.P

\* C2: a predict that returns has set x to F*x + B*u and P to F*P*F^T + Q from
\* the pre-call x and P and returned the new x; and when B was not supplied,
\* predict returns for every u with x = F*x, still n-by-1.
C2_PredictEquations ==
    last.op = "predict" =>
        LET p == last.pre
            u == IF IsNone(last.arg) THEN Scalar(Rat(0)) ELSE last.arg
        IN  /\ Returned =>
                /\ kf.x = Add(Dot(p.F, p.x), Dot(p.B, u))
                /\ kf.P = Add(Dot(Dot(p.F, p.P), T(p.F)), p.Q)
                /\ last.ret = kf.x
            /\ (IsNone(ctor.B) /\ p.x.shape = <<p.n, 1>>) =>
                /\ Returned
                /\ kf.x = Dot(p.F, p.x)
                /\ kf.x.shape = <<p.n, 1>>

\* C3: when R is omitted the stored R is the m-by-m identity, m the number of
\* rows of H.
C3_DefaultRIsMbyM ==
    (IsFilter(kf) /\ IsNone(ctor.R)) => kf.R = Eye(kf.H.shape[1])

\* C4: construction yields an instance exactly when F and H are both given and
\* H has as many columns as F has rows and columns.
C4_ConstructionValidates ==
    (last.op # "none") =>
        (IsFilter(kf) <=>
            /\ ~IsNone(ctor.F) /\ ~IsNone(ctor.H)
            /\ Ndim(ctor.F) = 2 /\ Ndim(ctor.H) = 2
            /\ ctor.F.shape[1] = ctor.F.shape[2]
            /\ ctor.H.shape[2] = ctor.F.shape[2])

\* C5: after a predict or update that raised, x and P are what they were
\* before the call.
C5_NoPartialMutation ==
    (IsCall /\ ~Returned) => (kf.x = last.pre.x /\ kf.P = last.pre.P)

\* C6: an update whose z has not m elements raises, a predict on a filter with
\* B raises when u is omitted or has not as many elements as B has columns, and
\* in both cases x and P keep their values.
C6_ShapeMismatchRejected ==
    /\ (last.op = "update" /\ Size(last.arg) # last.pre.H.shape[1]) =>
          (~Returned /\ kf.x = last.pre.x /\ kf.P = last.pre.P)
    /\ (last.op = "predict" /\ ~IsNone(ctor.B)
          /\ (IsNone(last.arg) \/ Size(last.arg) # last.pre.B.shape[2])) =>
          (~Returned /\ kf.x = last.pre.x /\ kf.P = last.pre.P)

\* C7: an update on a filter whose S = R + H*P*H^T is not invertible raises and
\* leaves x and P as they were, and the call that follows it starts from that
\* same x and P.
C7_SingularSRecoverable ==
    [][/\ (last'.op = "update" /\ calls' = calls + 1 /\ NotInvertible(InnovationCovOf(kf))) =>
            (last'.err # "none" /\ kf'.x = kf.x /\ kf'.P = kf.P)
       /\ (last.op = "update" /\ NotInvertible(InnovationCovOf(last.pre)) /\ calls' = calls + 1) =>
            (last'.pre.x = last.pre.x /\ last'.pre.P = last.pre.P)]_vars

\* An update has failed on a singular S with x and P held, and the caller can
\* still make a call.
C7_Witness ==
    /\ last.op = "update" /\ last.err = "LinAlgError"
    /\ InnovationCovOf(last.pre) = Mat(<<<<0>>>>)
    /\ kf.x = last.pre.x /\ kf.P = last.pre.P
    /\ calls < MaxCalls

\* C8: when the initial P, Q and R are symmetric, P is symmetric after every
\* sequence of predict and update calls.
C8_CovarianceSymmetric ==
    (IsFilter(kf) /\ Sym(InitialP) /\ Sym(kf.Q) /\ Sym(kf.R)) => Sym(kf.P)

\* A predict followed by an update has left a symmetric P with a nonzero
\* off-diagonal entry.
C8_Witness ==
    /\ IsFilter(kf) /\ Sym(InitialP) /\ Sym(kf.Q) /\ Sym(kf.R)
    /\ calls >= 2 /\ last.op = "update" /\ Returned
    /\ kf.P.shape = <<2, 2>> /\ At(kf.P, 1, 2) # Rat(0) /\ kf.P # last.pre.P

\* C9: a write the caller makes into its x0, its P or the vector predict
\* returned changes the x and P of no instance.
C9_CallerWritesDoNotReachFilter ==
    [][nmut' # nmut =>
         \A i \in Insts : ~IsNone(inst[i]) => Value(heap', inst'[i].k) = Value(heap, inst[i].k)]_vars

\* C10: two instances built from the same arguments that have received the
\* same calls agree on x and P, and a call on one instance leaves the x and P
\* of the other as they were.
TwinsAgree ==
    (~IsNone(inst[1]) /\ ~IsNone(inst[2])
       /\ inst[1].args = inst[2].args /\ inst[1].hist = inst[2].hist) =>
        Value(heap, inst[1].k) = Value(heap, inst[2].k)
C10_InstancesIndependent ==
    [][/\ TwinsAgree'
       /\ \A j \in Insts :
            (~IsNone(inst[j]) /\ inst'[j].hist = inst[j].hist) =>
                Value(heap', inst'[j].k) = Value(heap, inst[j].k)]_vars

\* Two instances built on the caller's one x0 have each received the same two
\* calls and hold equal x in separate objects.
C10_Witness ==
    /\ ~IsNone(inst[1]) /\ ~IsNone(inst[2])
    /\ IsArray(inst[1].args[1]) /\ inst[1].args = inst[2].args
    /\ inst[1].hist = inst[2].hist /\ Len(inst[1].hist) >= 2
    /\ inst[1].k.x # inst[2].k.x
    /\ heap[inst[1].k.x] = heap[inst[2].k.x]
    /\ heap[inst[1].k.x] # heap[cx0]
====
